---------------------------- MODULE Spec2Model ----------------------------
(***************************************************************************)
(* Price resolution pipeline of card-price-checker.                        *)
(*                                                                         *)
(* The repository holds two copies of the request handler (server.js, the  *)
(* first copy on lines 1-310 and the second on lines 312-624) and two      *)
(* copies of the eBay scraper (part_000 and part_001).  The handler loads   *)
(* the scraper with require('./ebay-scraper'), so every pairing of a        *)
(* handler copy with a scraper copy is a build of the program; the model    *)
(* carries the pairing in serverVer and scraperVer.                         *)
(*                                                                         *)
(* Numbers.  A JavaScript number that holds a price is modelled by an       *)
(* integer count of thousandths of a dollar (1.006 is 1006); NaN and null   *)
(* are the two values NaN and Null below.  Strings are TLA+ strings, read   *)
(* character by character with SubSeq.                                      *)
(***************************************************************************)
EXTENDS Integers, Sequences, FiniteSets, TLC

VARIABLES
    serverVer,      \* which copy of server.js handles the request (1 or 2)
    scraperVer,     \* which copy of ebay-scraper.js is loaded (0 or 1)
    cardInfo,       \* req.body.cardInfo
    pc,             \* position of the request in handler / scraper / catalog code
    browser,        \* the scraper's local `browser`: "null" or "ref"
    browserOpen,    \* whether a launched Chromium process is still running
    closeCalls,     \* number of browser.close() calls made so far
    items,          \* the .s-item elements of the page read by page.evaluate
    soldListings,   \* result of page.evaluate
    scraperResult,  \* value returned by scrapeEbaySoldListings
    thrown,         \* the exception in flight ("" when none)
    catalogCalls,   \* number of calls of searchSportsCardsPro
    results,        \* the catalog search response's results
    products,       \* the catalog results after filtering and sorting
    catalogResult,  \* value returned by searchSportsCardsPro
    searchTerms,    \* the query built by the function that is running ("" when none)
    response        \* what the handler sent with res.json

vars == << serverVer, scraperVer, cardInfo, pc, browser, browserOpen, closeCalls,
           items, soldListings, scraperResult, thrown, catalogCalls, results,
           products, catalogResult, searchTerms, response >>

---------------------------------------------------------------------------
(* JavaScript values *)

\* parseFloat's "not a number"
NaN == -1
\* null / undefined in a numeric slot
Null == -2
\* number of model units in one dollar (three decimal places are kept)
Scale == 10 * 10 * 10
\* the string 'Unknown' in the salesVolume slot
Unknown == -3
\* a record that stands for `undefined`
Undefined == [undefined |-> TRUE]

\* JavaScript truthiness of a numeric slot
Truthy(x) == x # Null /\ x # NaN /\ x # 0

---------------------------------------------------------------------------
(* Strings *)

Digits == "0123456789"
UpperChars == "ABCDEFGHIJKLMNOPQRSTUVWXYZ"
LowerChars == "abcdefghijklmnopqrstuvwxyz"

CharAt(s, i) == SubSeq(s, i, i)

IsDigit(c) == \E i \in 1..10 : CharAt(Digits, i) = c

DigitVal(c) == (CHOOSE i \in 1..10 : CharAt(Digits, i) = c) - 1

LowerChar(c) ==
    IF \E i \in 1..26 : CharAt(UpperChars, i) = c
    THEN CharAt(LowerChars, CHOOSE i \in 1..26 : CharAt(UpperChars, i) = c)
    ELSE c

RECURSIVE ToLowerCase(_)
ToLowerCase(s) ==
    IF s = "" THEN ""
    ELSE LowerChar(CharAt(s, 1)) \o ToLowerCase(SubSeq(s, 2, Len(s)))

\* String.prototype.includes
Includes(s, t) ==
    \E i \in 0..(Len(s) - Len(t)) : SubSeq(s, i + 1, i + Len(t)) = t

RECURSIVE TrimStart(_)
TrimStart(s) ==
    IF s # "" /\ CharAt(s, 1) = " " THEN TrimStart(SubSeq(s, 2, Len(s))) ELSE s

RECURSIVE TrimEnd(_)
TrimEnd(s) ==
    IF s # "" /\ CharAt(s, Len(s)) = " " THEN TrimEnd(SubSeq(s, 1, Len(s) - 1)) ELSE s

\* String.prototype.trim
Trim(s) == TrimEnd(TrimStart(s))

\* s.replace(/,/g, '')
RECURSIVE RemoveCommas(_)
RemoveCommas(s) ==
    IF s = "" THEN ""
    ELSE (IF CharAt(s, 1) = "," THEN "" ELSE CharAt(s, 1))
             \o RemoveCommas(SubSeq(s, 2, Len(s)))

\* s.replace(/[^0-9.]/g, '')
RECURSIVE KeepDigitsAndDots(_)
KeepDigitsAndDots(s) ==
    IF s = "" THEN ""
    ELSE (IF IsDigit(CharAt(s, 1)) \/ CharAt(s, 1) = "." THEN CharAt(s, 1) ELSE "")
             \o KeepDigitsAndDots(SubSeq(s, 2, Len(s)))

\* length of the longest run of characters satisfying Ok that starts at s[i]
RunLen(s, i, Ok(_)) ==
    LET ns == { n \in 0..(Len(s) - i + 1) : \A k \in i..(i + n - 1) : Ok(CharAt(s, k)) }
    IN  CHOOSE n \in ns : \A m \in ns : m <= n

IsDigitOrComma(c) == IsDigit(c) \/ c = ","

\* value of a string of decimal digits ("" is 0)
RECURSIVE DigitsValue(_)
DigitsValue(s) ==
    IF s = "" THEN 0
    ELSE 10 * DigitsValue(SubSeq(s, 1, Len(s) - 1)) + DigitVal(CharAt(s, Len(s)))

\* The fraction digits d1 d2 d3 ... as thousandths; digits after the third
\* are dropped (the price texts of the model have at most four, the fourth 0).
FractionValue(s) ==
    LET d(i) == IF i <= Len(s) THEN DigitVal(CharAt(s, i)) ELSE 0
    IN  100 * d(1) + 10 * d(2) + d(3)

\* parseFloat on a string made of digits and dots only: the longest prefix
\* digits [ "." digits ] with at least one digit is read, NaN when there is none.
ParseFloat(s) ==
    LET nInt  == RunLen(s, 1, IsDigit)
        dot   == nInt < Len(s) /\ CharAt(s, nInt + 1) = "."
        nFrac == IF dot THEN RunLen(s, nInt + 2, IsDigit) ELSE 0
    IN  IF nInt + nFrac = 0 THEN NaN
        ELSE Scale * DigitsValue(SubSeq(s, 1, nInt))
               + FractionValue(SubSeq(s, nInt + 2, nInt + 1 + nFrac))

\* priceText.match(/\$?([\d,]+\.?\d*)/): capture group 1 of the leftmost match,
\* matched = FALSE when nothing matches (match returns null).  The leftmost
\* match always captures from the first digit-or-comma of the text.
PriceMatch(priceText) ==
    LET starts == { i \in 1..Len(priceText) : IsDigitOrComma(CharAt(priceText, i)) }
    IN  IF starts = {} THEN [matched |-> FALSE]
        ELSE LET b  == CHOOSE i \in starts : \A j \in starts : i <= j
                 n1 == RunLen(priceText, b, IsDigitOrComma)
                 d  == IF b + n1 <= Len(priceText) /\ CharAt(priceText, b + n1) = "."
                       THEN 1 ELSE 0
                 n2 == RunLen(priceText, b + n1 + d, IsDigit)
             IN  [matched |-> TRUE,
                  group |-> SubSeq(priceText, b, b + n1 + d + n2 - 1)]

---------------------------------------------------------------------------
(* JavaScript comparisons: any comparison with NaN is false *)

Gt(a, b) == a # NaN /\ b # NaN /\ a > b
Lt(a, b) == a # NaN /\ b # NaN /\ a < b
Ge(a, b) == a # NaN /\ b # NaN /\ a >= b
Le(a, b) == a # NaN /\ b # NaN /\ a <= b

---------------------------------------------------------------------------
(* Noise Filter: the page.evaluate callback of scrapeEbaySoldListings.     *)
(* An item is [title |-> text of .s-item__title, priceText |-> text of     *)
(* .s-item__price]; a missing element reads as the empty text in both      *)
(* copies (title '' ; part_000 returns on !priceElement exactly as it does  *)
(* on a text without a match, part_001 reads '' and parseFloat gives NaN).  *)

\* if (price > 10000) return;
MaxPrice == 10000 * Scale
\* if (price < 0.50) return;
MinPrice == Scale \div 2

GradingTerms ==
    { "psa", "bgs", "sgc", "cgc", "graded", "gem", "mint 10", "bccg", "hga", "slab" }

\* part_000: gradingTerms.some(term => titleLower.includes(term))
IsGraded000(titleLower) == \E term \in GradingTerms : Includes(titleLower, term)

\* part_001: the chain of title.includes(...) tests
IsGraded001(title) ==
    \/ Includes(title, "psa") \/ Includes(title, "bgs") \/ Includes(title, "sgc")
    \/ Includes(title, "graded") \/ Includes(title, "gem mint")
    \/ Includes(title, "psa 10") \/ Includes(title, "bgs 9.5")

\* part_000: price < 0.50 is dropped, price > 10000 is dropped
PriceRejected000(price) == Gt(price, MaxPrice) \/ Lt(price, MinPrice)

\* part_001: isNaN(price) || price <= 0 || price > 10000
PriceRejected001(price) == price = NaN \/ Le(price, 0) \/ Gt(price, MaxPrice)

\* part_000's callback on one item: the listings it pushes (none or one)
ListingOf000(item) ==
    LET title      == Trim(item.title)
        priceMatch == PriceMatch(Trim(item.priceText))
        price      == ParseFloat(RemoveCommas(priceMatch.group))
    IN  IF title = "Shop on eBay" \/ title = "" THEN << >>
        ELSE IF ~priceMatch.matched THEN << >>
        ELSE IF IsGraded000(ToLowerCase(title)) THEN << >>
        ELSE IF PriceRejected000(price) THEN << >>
        ELSE << [price |-> price, title |-> title] >>

\* part_001's callback on one item
ListingOf001(item) ==
    LET title == ToLowerCase(item.title)
        price == ParseFloat(KeepDigitsAndDots(item.priceText))
    IN  IF Includes(title, "shop on ebay") \/ Includes(title, "related sponsored items")
        THEN << >>
        ELSE IF IsGraded001(title) THEN << >>
        ELSE IF PriceRejected001(price) THEN << >>
        ELSE << [price |-> price, title |-> title] >>

ListingOf(ver, item) == IF ver = 0 THEN ListingOf000(item) ELSE ListingOf001(item)

\* items.forEach(...): the listings pushed, in the order of the items
RECURSIVE ExtractListings(_, _)
ExtractListings(ver, its) ==
    IF its = << >> THEN << >>
    ELSE ListingOf(ver, Head(its)) \o ExtractListings(ver, Tail(its))

---------------------------------------------------------------------------
(* Outlier Filter and summary: the code after the browser is closed *)

Range(f) == { f[i] : i \in DOMAIN f }

RECURSIVE InsertAsc(_, _)
InsertAsc(x, sorted) ==
    IF sorted = << >> THEN << x >>
    ELSE IF x < Head(sorted) THEN << x >> \o sorted
    ELSE << Head(sorted) >> \o InsertAsc(x, Tail(sorted))

\* stable ascending insertion of the elements of a NaN-free sequence
RECURSIVE SortAsc(_)
SortAsc(seq) ==
    IF seq = << >> THEN << >>
    ELSE InsertAsc(seq[Len(seq)], SortAsc(SubSeq(seq, 1, Len(seq) - 1)))

Reorderings(seq) ==
    { [i \in 1..Len(seq) |-> seq[f[i]]] :
        f \in { g \in [1..Len(seq) -> 1..Len(seq)] : Range(g) = 1..Len(seq) } }

\* prices.sort((a, b) => a - b).  The comparator returns NaN as soon as one
\* of the two is NaN, so it is not a consistent comparator and the order of
\* the result is implementation-defined: any permutation.
SortOutcomes(prices) ==
    IF NaN \in Range(prices) THEN Reorderings(prices) ELSE { SortAsc(prices) }

\* prices.filter(p => p >= lowerBound && p <= upperBound), with
\* lowerBound = q1 - 1.5 * iqr and upperBound = q3 + 1.5 * iqr (doubled here)
WithinFence(p, q1, q3) ==
    /\ p # NaN /\ q1 # NaN /\ q3 # NaN
    /\ 2 * p >= 2 * q1 - 3 * (q3 - q1)
    /\ 2 * p <= 2 * q3 + 3 * (q3 - q1)

RECURSIVE SelectFenced(_, _, _)
SelectFenced(prices, q1, q3) ==
    IF prices = << >> THEN << >>
    ELSE (IF WithinFence(Head(prices), q1, q3) THEN << Head(prices) >> ELSE << >>)
             \o SelectFenced(Tail(prices), q1, q3)

FilteredPrices(prices) ==
    LET q1Index == Len(prices) \div 4
        q3Index == (3 * Len(prices)) \div 4
    IN  SelectFenced(prices, prices[q1Index + 1], prices[q3Index + 1])

RECURSIVE Sum(_)
Sum(seq) == IF seq = << >> THEN 0 ELSE Head(seq) + Sum(Tail(seq))

MathMin(seq) == CHOOSE x \in Range(seq) : \A y \in Range(seq) : x <= y
MathMax(seq) == CHOOSE x \in Range(seq) : \A y \in Range(seq) : x >= y

\* parseFloat((sum / n).toFixed(2)): the average rounded to whole cents.  The
\* double nearest to a value that lies exactly half way between two cents may
\* lie on either side of it, so both neighbours are outcomes there.
AverageOutcomes(sum, n) ==
    LET unit  == (Scale \div 100) * n
        cents == sum \div unit
        rest  == sum - cents * unit
    IN  IF 2 * rest < unit THEN { cents * (Scale \div 100) }
        ELSE IF 2 * rest > unit THEN { (cents + 1) * (Scale \div 100) }
        ELSE { cents * (Scale \div 100), (cents + 1) * (Scale \div 100) }

NoListingsMessage(ver) ==
    IF ver = 0 THEN "No sold listings found for this card" ELSE "No sold listings found"

\* the results the code after sorting can return for the sorted prices
SummariesOf(sorted) ==
    LET filteredPrices == FilteredPrices(sorted)
    IN  IF Len(filteredPrices) = 0
        THEN { [success |-> FALSE, message |-> "No valid prices found after filtering"] }
        ELSE { [success      |-> TRUE,
                averagePrice |-> average,
                soldCount    |-> Len(filteredPrices),
                priceRange   |-> [low  |-> MathMin(filteredPrices),
                                  high |-> MathMax(filteredPrices)],
                allPrices    |-> filteredPrices] :
               average \in AverageOutcomes(Sum(filteredPrices), Len(filteredPrices)) }

\* what scrapeEbaySoldListings returns once soldListings is known
SummaryOutcomes(ver, listings) ==
    IF Len(listings) = 0
    THEN { [success |-> FALSE, message |-> NoListingsMessage(ver)] }
    ELSE UNION { SummariesOf(sorted) :
                 sorted \in SortOutcomes([i \in 1..Len(listings) |-> listings[i].price]) }

---------------------------------------------------------------------------
(* Catalog Matcher and Ranker.  A catalog candidate is                      *)
(* [productName, setName, rawPrice, salesVolume]: 'product-name' and        *)
(* 'console-name' of the first copy's search results, product_name,         *)
(* set_name, raw_price and sales_volume of the second copy's.               *)

\* Array.prototype.sort with a consistent comparator: the sort is stable, so
\* each element goes behind every element it does not sort before.
SortBy(seq, Cmp(_, _)) ==
    LET RECURSIVE Insert(_, _)
        Insert(x, sorted) ==
            IF sorted = << >> THEN << x >>
            ELSE IF Cmp(x, Head(sorted)) < 0 THEN << x >> \o sorted
            ELSE << Head(sorted) >> \o Insert(x, Tail(sorted))
        RECURSIVE Sort(_)
        Sort(t) ==
            IF t = << >> THEN << >>
            ELSE Insert(t[Len(t)], Sort(SubSeq(t, 1, Len(t) - 1)))
    IN  Sort(seq)

\* s.split(' ').length
SplitLength(s) == 1 + Cardinality({ i \in 1..Len(s) : CharAt(s, i) = " " })

conditionalVariants ==
    { "canvas", "exclusive", "acetate", "deluxe", "outburst", "clear cut",
      "high gloss", "rainbow", "spectrum", "silver", "gold", "platinum",
      "parallel", "refractor", "prizm", "foil", "chrome", "sparkle", "shimmer", "now" }

\* first copy of server.js
filterVariants(prods, card) ==
    LET queryLower == ToLowerCase(card.parallel)
        wantsSpecificVariant == queryLower # "" /\ queryLower # "base"
        wantsConditionalVariant ==
            \E term \in conditionalVariants : Includes(queryLower, term)
        Keep(product) ==
            LET fullText == ToLowerCase(product.productName) \o " "
                              \o ToLowerCase(product.setName)
            IN  /\ ~Includes(fullText, "oversized")
                /\ wantsSpecificVariant => Includes(fullText, queryLower)
                /\ ~wantsConditionalVariant =>
                       \A term \in conditionalVariants : ~Includes(fullText, term)
    IN  SelectSeq(prods, Keep)

smartSortKeywords1 ==
    { "now", "chrome", "select", "prizm", "optic", "mosaic", "contenders" }

\* name.match(/^hockey cards \d{4}(-\d{2})? upper deck$/)
IsFlagship(name) ==
    LET pre == "hockey cards "
        suf == " upper deck"
        mid == SubSeq(name, Len(pre) + 1, Len(name) - Len(suf))
        AllDigits(t) == \A i \in 1..Len(t) : IsDigit(CharAt(t, i))
    IN  /\ Len(name) >= Len(pre) + Len(suf)
        /\ SubSeq(name, 1, Len(pre)) = pre
        /\ SubSeq(name, Len(name) - Len(suf) + 1, Len(name)) = suf
        /\ \/ Len(mid) = 4 /\ AllDigits(mid)
           \/ /\ Len(mid) = 7 /\ AllDigits(SubSeq(mid, 1, 4))
              /\ CharAt(mid, 5) = "-" /\ AllDigits(SubSeq(mid, 6, 7))

\* the comparator of the first copy's smartSort
smartSortCompare1(a, b, card) ==
    LET aName == ToLowerCase(a.setName)
        bName == ToLowerCase(b.setName)
        sport == ToLowerCase(card.sport)
        aIsBase == ~\E keyword \in smartSortKeywords1 : Includes(aName, keyword)
        bIsBase == ~\E keyword \in smartSortKeywords1 : Includes(bName, keyword)
    IN  IF sport \in { "basketball", "baseball" } /\ aIsBase /\ ~bIsBase THEN -1
        ELSE IF sport \in { "basketball", "baseball" } /\ ~aIsBase /\ bIsBase THEN 1
        ELSE IF sport = "hockey" /\ IsFlagship(aName) /\ ~IsFlagship(bName) THEN -1
        ELSE IF sport = "hockey" /\ ~IsFlagship(aName) /\ IsFlagship(bName) THEN 1
        ELSE SplitLength(aName) - SplitLength(bName)

\* first copy: smartSort(products, cardInfo)
smartSort1(prods, card) ==
    LET Cmp(a, b) == smartSortCompare1(a, b, card) IN SortBy(prods, Cmp)

excludeVariants ==
    { "prizm", "chrome", "optic", "select", "mosaic", "refractor", "shimmer",
      "holo", "silver", "gold", "auto", "autograph", "patch", "relic", "jersey",
      "rookie ticket", "numbered", "insert", "parallel", "now" }

deprioritize ==
    { "now", "chrome", "select", "prizm", "optic", "mosaic", "update", "opening day" }

\* the comparator of the second copy's smartSort
smartSortCompare2(a, b, sport) ==
    LET aText == ToLowerCase(a.productName \o " " \o a.setName)
        bText == ToLowerCase(b.productName \o " " \o b.setName)
        aHasDeprioritized == \E term \in deprioritize : Includes(aText, term)
        bHasDeprioritized == \E term \in deprioritize : Includes(bText, term)
        aIsYoungGuns == Includes(aText, "young guns")
        bIsYoungGuns == Includes(bText, "young guns")
    IN  IF sport \in { "basketball", "baseball" } /\ aHasDeprioritized /\ ~bHasDeprioritized
        THEN 1
        ELSE IF sport \in { "basketball", "baseball" } /\ ~aHasDeprioritized
                  /\ bHasDeprioritized
        THEN -1
        ELSE IF sport = "hockey" /\ aIsYoungGuns /\ ~bIsYoungGuns THEN -1
        ELSE IF sport = "hockey" /\ ~aIsYoungGuns /\ bIsYoungGuns THEN 1
        ELSE 0

\* second copy: smartSort(cards, sport)
smartSort2(cards, sport) ==
    LET Cmp(a, b) == smartSortCompare2(a, b, sport) IN SortBy(cards, Cmp)

\* second copy of server.js
filterAndSortCards(cards, targetCard) ==
    LET sport == targetCard.sport
        parallel == targetCard.parallel
        cardNumber == targetCard.cardNumber
        wantsBase == parallel = "" \/ ToLowerCase(parallel) = "base"
        Keep(card) ==
            LET productLower == ToLowerCase(card.productName)
                setLower == ToLowerCase(card.setName)
                combinedText == productLower \o " " \o setLower
            IN  /\ sport = "hockey" => Includes(setLower, "hockey")
                /\ sport = "basketball" => Includes(setLower, "basketball")
                /\ ~wantsBase => Includes(combinedText, ToLowerCase(parallel))
                /\ wantsBase =>
                       \A variant \in excludeVariants : ~Includes(combinedText, variant)
                /\ (cardNumber # "" /\ cardNumber # "Not visible") =>
                       Includes(productLower, "#" \o ToLowerCase(cardNumber))
        filtered == SelectSeq(cards, Keep)
    IN  IF wantsBase THEN smartSort2(filtered, sport) ELSE filtered

---------------------------------------------------------------------------
(* Query Builder: the searchTerms of the two scraper copies and of the two  *)
(* copies of searchSportsCardsPro.  A field the request leaves empty is the *)
(* empty string; a field that is missing altogether behaves as the empty    *)
(* one in every test below, and differs only in part_000's template literal *)
(* for the card number, which prints it as '#undefined' instead of '#'.     *)

\* terms.join(' ')
RECURSIVE Join(_)
Join(terms) ==
    IF terms = << >> THEN ""
    ELSE IF Len(terms) = 1 THEN terms[1]
    ELSE terms[1] \o " " \o Join(Tail(terms))

\* .filter(term => term)
IsTruthyTerm(term) == term # ""

\* .filter(t => t && t !== 'Not visible')
IsVisibleTerm(t) == t # "" /\ t # "Not visible"

\* part_000
searchTerms000(card) ==
    Join(SelectSeq(<< card.year, card.brand, card.series, card.player,
                      IF card.cardNumber # "Not visible" THEN "#" \o card.cardNumber ELSE "",
                      IF card.parallel # "" /\ card.parallel # "Base"
                      THEN card.parallel ELSE "" >>,
                   IsTruthyTerm))

\* part_001
searchTerms001(card) ==
    Join(SelectSeq(<< card.year, card.brand, card.series, card.player, card.cardNumber >>,
                   IsVisibleTerm))

ScraperSearchTerms(ver, card) ==
    IF ver = 0 THEN searchTerms000(card) ELSE searchTerms001(card)

\* first copy of searchSportsCardsPro
searchTermsCatalog1(card) ==
    Join(SelectSeq(<< card.player, card.year, card.brand, card.series,
                      IF card.cardNumber # "Not visible" THEN card.cardNumber ELSE "",
                      IF card.parallel # "Base" THEN card.parallel ELSE "" >>,
                   IsTruthyTerm))

\* second copy of searchSportsCardsPro
searchTermsCatalog2(card) ==
    Join(SelectSeq(<< card.player, card.year, card.brand, card.series >>, IsVisibleTerm))

CatalogSearchTerms(ver, card) ==
    IF ver = 1 THEN searchTermsCatalog1(card) ELSE searchTermsCatalog2(card)

---------------------------------------------------------------------------
(* Inputs of a request *)

\* longest page whose items vary in title and price text
MaxItems == 2
\* longest page of plainly titled items (the Outlier Filter needs four prices
\* before its quartiles differ from the extremes)
MaxPrices == 4
\* longest catalog search response
MaxResults == 2

SeqsUpTo(S, n) == UNION { [1..k -> S] : k \in 0..n }

Titles ==
    { "Connor Bedard Young Guns", " Bedard RC ", "PSA 10 Bedard",
      "Bedard CGC 9.5 Slab", "Shop on eBay", "" }

PriceTexts ==
    { "$0.49", "$0.50", "$10,000.00", "$10,000.01", "$12.00",
      "$5.00 to $10.00", "Sold, $12.00", "" }

PlainPriceTexts == { "$10.00", "$11.00", "$12.00", "$500.00" }

Pages ==
    SeqsUpTo([title : Titles, priceText : PriceTexts], MaxItems)
      \cup UNION { [1..k -> [title : { "Connor Bedard Young Guns" },
                             priceText : PlainPriceTexts]] :
                   k \in (MaxItems + 1)..MaxPrices }

CardInfos ==
    { [player |-> "Connor Bedard", year |-> "2023-24", brand |-> "Upper Deck",
       series |-> "Series 2", sport |-> "hockey", cardNumber |-> "451",
       parallel |-> "Base"],
      [player |-> "Victor Wembanyama", year |-> "2023-24", brand |-> "Panini",
       series |-> "Prizm", sport |-> "basketball", cardNumber |-> "Not visible",
       parallel |-> "Silver Prizm"],
      \* a request whose cardNumber and parallel are empty
      [player |-> "Connor Bedard", year |-> "2023-24", brand |-> "Upper Deck",
       series |-> "Series 2", sport |-> "hockey", cardNumber |-> "",
       parallel |-> ""] }

CandidateNames ==
    { << "Connor Bedard [Young Guns] #451", "Hockey Cards 2023-24 Upper Deck" >>,
      << "Connor Bedard #451", "Hockey Cards 2023-24 Upper Deck Premier" >>,
      << "Connor Bedard Oversized #451", "Hockey Cards 2023-24 Upper Deck" >>,
      << "Victor Wembanyama Silver Prizm #136", "Basketball Cards 2023 Panini Prizm" >> }

\* a price of 12.34 dollars
SomePrice == 1234 * (Scale \div 100)

\* raw_price and sales_volume of a candidate: each present or missing, and a
\* price of zero
PriceVolumes == { << Null, Null >>, << 0, 7 >>, << SomePrice, Null >>, << SomePrice, 7 >> }

\* candidates that differ from the ones above in one word of the product name:
\* no card number and no subset, or a variant word
VariantNames ==
    { << "Connor Bedard", "Hockey Cards 2023-24 Upper Deck" >>,
      << "Connor Bedard Rainbow #451", "Hockey Cards 2023-24 Upper Deck" >>,
      << "Connor Bedard Holo #451", "Hockey Cards 2023-24 Upper Deck" >> }

Candidates ==
    { [productName |-> n[1], setName |-> n[2], rawPrice |-> pv[1], salesVolume |-> pv[2]] :
        n \in CandidateNames, pv \in PriceVolumes }
      \cup { [productName |-> n[1], setName |-> n[2], rawPrice |-> SomePrice,
              salesVolume |-> 7] : n \in VariantNames }

\* the first copy's /api/product response
Details ==
    [status : { "success", "error" }, loosePrice : { Null, 0, 1234 },
     salesVolume : { Null, 7 }]

---------------------------------------------------------------------------
(* The request *)

Init ==
    /\ serverVer \in { 1, 2 }
    /\ scraperVer \in { 0, 1 }
    /\ cardInfo \in CardInfos
    /\ pc = "idle"
    /\ browser = "null"
    /\ browserOpen = FALSE
    /\ closeCalls = 0
    /\ items = << >>
    /\ soldListings = << >>
    /\ scraperResult = Undefined
    /\ thrown = ""
    /\ catalogCalls = 0
    /\ results = << >>
    /\ products = << >>
    /\ catalogResult = Undefined
    /\ searchTerms = ""
    /\ response = Undefined

scraperVars == << browser, browserOpen, closeCalls, items, soldListings, scraperResult >>
catalogVars == << catalogCalls, results, products, catalogResult >>
configVars == << serverVer, scraperVer, cardInfo >>

\* app.post('/api/get-price'): the handler calls scrapeEbaySoldListings(cardInfo)
HandlerStart ==
    /\ pc = "idle"
    /\ pc' = "scrape.launch"
    /\ UNCHANGED << configVars, searchTerms, scraperVars, catalogVars, thrown, response >>

\* browser = await puppeteer.launch(...)
Launch ==
    /\ pc = "scrape.launch"
    /\ \/ /\ browser' = "ref"
          /\ browserOpen' = TRUE
          /\ pc' = "scrape.navigate"
          /\ thrown' = thrown
       \/ /\ thrown' = "launch failed"
          /\ pc' = "scrape.catch"
          /\ UNCHANGED << browser, browserOpen >>
    /\ searchTerms' = ScraperSearchTerms(scraperVer, cardInfo)
    /\ UNCHANGED << configVars, closeCalls, items, soldListings, scraperResult,
                    catalogVars, response >>

\* newPage, (setUserAgent,) goto and the wait that follows it.  The page that
\* was loaded is chosen here; part_001 waits for a '.s-item' and times out
\* when the page has none.
Navigate ==
    /\ pc = "scrape.navigate"
    /\ \/ \E page \in Pages :
            /\ items' = page
            /\ IF scraperVer = 1 /\ page = << >>
               THEN thrown' = "TimeoutError" /\ pc' = "scrape.catch"
               ELSE thrown' = thrown /\ pc' = "scrape.evaluate"
       \/ /\ thrown' = "TimeoutError"
          /\ pc' = "scrape.catch"
          /\ items' = items
    /\ UNCHANGED << configVars, searchTerms, browser, browserOpen, closeCalls, soldListings,
                    scraperResult, catalogVars, response >>

\* const soldListings = await page.evaluate(...)
Evaluate ==
    /\ pc = "scrape.evaluate"
    /\ \/ /\ soldListings' = ExtractListings(scraperVer, items)
          /\ pc' = "scrape.close"
          /\ thrown' = thrown
       \/ /\ thrown' = "evaluate failed"
          /\ pc' = "scrape.catch"
          /\ soldListings' = soldListings
    /\ UNCHANGED << configVars, searchTerms, browser, browserOpen, closeCalls, items,
                    scraperResult, catalogVars, response >>

\* await browser.close(); browser = null;   A close that rejects leaves the
\* variable set, and the process running or not.
CloseBrowser ==
    /\ pc = "scrape.close"
    /\ closeCalls' = closeCalls + 1
    /\ \/ /\ browserOpen' = FALSE
          /\ browser' = "null"
          /\ pc' = "scrape.summarize"
          /\ thrown' = thrown
       \/ /\ browserOpen' \in BOOLEAN
          /\ browser' = browser
          /\ thrown' = "close failed"
          /\ pc' = "scrape.catch"
    /\ UNCHANGED << configVars, searchTerms, items, soldListings, scraperResult, catalogVars,
                    response >>

\* the Outlier Filter and the return statements after it
Summarize ==
    /\ pc = "scrape.summarize"
    /\ scraperResult' \in SummaryOutcomes(scraperVer, soldListings)
    /\ pc' = "scrape.return"
    /\ UNCHANGED << configVars, searchTerms, browser, browserOpen, closeCalls, items,
                    soldListings, catalogVars, thrown, response >>

\* catch (error) { if (browser) await browser.close(); return {success: false, ...} }
\* A rejection of this close is not caught: it leaves the function.  Either
\* way the function is left, and its locals with it.
ScrapeCatch ==
    /\ pc = "scrape.catch"
    /\ \/ /\ browser = "null"
          /\ scraperResult' = [success |-> FALSE, error |-> thrown]
          /\ thrown' = ""
          /\ pc' = "handler.afterScrape"
          /\ UNCHANGED << browserOpen, closeCalls >>
       \/ /\ browser = "ref"
          /\ closeCalls' = closeCalls + 1
          /\ \/ /\ browserOpen' = FALSE
                /\ scraperResult' = [success |-> FALSE, error |-> thrown]
                /\ thrown' = ""
                /\ pc' = "handler.afterScrape"
             \/ /\ browserOpen' \in BOOLEAN
                /\ scraperResult' = scraperResult
                /\ thrown' = "close failed"
                /\ pc' = "handler.catch"
    /\ items' = << >>
    /\ soldListings' = << >>
    /\ searchTerms' = ""
    /\ UNCHANGED << configVars, browser, catalogVars, response >>

\* a return statement after the Outlier Filter: the locals are gone, the
\* handler has scraperResult
ScrapeReturn ==
    /\ pc = "scrape.return"
    /\ items' = << >>
    /\ soldListings' = << >>
    /\ pc' = "handler.afterScrape"
    /\ searchTerms' = ""
    /\ UNCHANGED << configVars, browser, browserOpen, closeCalls, scraperResult,
                    catalogVars, thrown, response >>

LiveSource == IF serverVer = 1 THEN "eBay Scraper (Live Data)" ELSE "eBay (Live Sold Listings)"

\* HandlerAfterScrape without the early return: the fallback is called
\* whatever the scraper returned
HandlerAfterScrape_NoEarlyReturn ==
    /\ pc = "handler.afterScrape"
    /\ response' = response
    /\ pc' = "catalog.search"
    /\ catalogCalls' = catalogCalls + 1
    /\ UNCHANGED << configVars, searchTerms, scraperVars, results, products, catalogResult, thrown >>

\* if (scraperResult.success) return res.json(...); otherwise the fallback
\* calls searchSportsCardsPro(cardInfo)
HandlerAfterScrape ==
    /\ pc = "handler.afterScrape"
    /\ IF scraperResult.success
       THEN /\ response' =
                 [status |-> 200, success |-> TRUE,
                  pricing |-> [found       |-> TRUE,
                               price       |-> scraperResult.averagePrice,
                               salesVolume |-> scraperResult.soldCount,
                               priceRange  |-> scraperResult.priceRange,
                               source      |-> LiveSource]]
            /\ pc' = "done"
            /\ catalogCalls' = catalogCalls
       ELSE /\ response' = response
            /\ pc' = "catalog.search"
            /\ catalogCalls' = catalogCalls + 1
    /\ UNCHANGED << configVars, searchTerms, scraperVars, results, products, catalogResult, thrown >>

\* searchSportsCardsPro up to its first return or, in the first copy, up to
\* the request for the best match's details.
CatalogSearch ==
    /\ pc = "catalog.search"
    /\ \/ \* axios.get rejects: the catch block
          /\ results' = results
          /\ products' = products
          /\ catalogResult' =
                 IF serverVer = 1
                 THEN [found |-> FALSE, message |-> "Error searching SportsCardsPro"]
                 ELSE [found |-> FALSE, error |-> "request failed"]
          /\ pc' = "handler.afterCatalog"
       \/ \E rs \in SeqsUpTo(Candidates, MaxResults), statusOk \in BOOLEAN :
               /\ serverVer = 2 => statusOk
               /\ ~statusOk => rs = << >>
               /\ results' = rs
               /\ IF serverVer = 1
                  THEN IF ~statusOk \/ Len(rs) = 0
                       THEN /\ products' = products
                            /\ catalogResult' =
                                   [found |-> FALSE,
                                    message |-> "Card not found in SportsCardsPro database"]
                            /\ pc' = "handler.afterCatalog"
                       ELSE /\ products' = smartSort1(filterVariants(rs, cardInfo), cardInfo)
                            /\ IF Len(products') = 0
                               THEN /\ catalogResult' =
                                          [found |-> FALSE,
                                           message |-> "No matching cards found after filtering"]
                                    /\ pc' = "handler.afterCatalog"
                               ELSE /\ catalogResult' = catalogResult
                                    /\ pc' = "catalog.detail"
                  ELSE /\ pc' = "handler.afterCatalog"
                       /\ IF Len(rs) = 0
                          THEN /\ products' = products
                               /\ catalogResult' =
                                      [found |-> FALSE, message |-> "No results found"]
                          ELSE /\ products' = filterAndSortCards(rs, cardInfo)
                               /\ catalogResult' =
                                      IF Len(products') = 0
                                      THEN [found |-> FALSE,
                                            message |-> "No matching cards after filtering"]
                                      ELSE IF ~Truthy(products'[1].rawPrice)
                                      THEN [found |-> FALSE,
                                            message |-> "Card found but no price available"]
                                      ELSE [found       |-> TRUE,
                                            price       |-> products'[1].rawPrice,
                                            salesVolume |->
                                                IF Truthy(products'[1].salesVolume)
                                                THEN products'[1].salesVolume ELSE 0,
                                            cardName    |-> products'[1].productName,
                                            setName     |-> products'[1].setName]
    /\ searchTerms' = CatalogSearchTerms(serverVer, cardInfo)
    /\ UNCHANGED << configVars, scraperVars, catalogCalls, thrown, response >>

\* first copy only: the /api/product request for products[0] and the return.
\* 'loose-price' is in pennies.
CatalogDetail ==
    /\ pc = "catalog.detail"
    /\ \/ catalogResult' = [found |-> FALSE, message |-> "Error searching SportsCardsPro"]
       \/ \E details \in Details :
            catalogResult' =
                IF details.status # "success"
                THEN [found |-> FALSE, message |-> "Could not retrieve pricing details"]
                ELSE [found       |-> TRUE,
                      cardName    |-> products[1].productName,
                      setName     |-> products[1].setName,
                      price       |-> IF Truthy(details.loosePrice)
                                      THEN details.loosePrice * (Scale \div 100)
                                      ELSE Null,
                      salesVolume |-> IF Truthy(details.salesVolume)
                                      THEN details.salesVolume ELSE Unknown]
    /\ pc' = "handler.afterCatalog"
    /\ UNCHANGED << configVars, searchTerms, scraperVars, catalogCalls, results, products, thrown,
                    response >>

\* {...sportsCardsProResult, source: 'SportsCardsPro (Fallback)'}
WithSource(result, source) ==
    [f \in DOMAIN result \cup { "source" } |->
        IF f = "source" THEN source ELSE result[f]]

\* if (sportsCardsProResult.found) ... else "Both failed"
HandlerAfterCatalog ==
    /\ pc = "handler.afterCatalog"
    /\ response' =
           IF catalogResult.found
           THEN [status |-> 200, success |-> TRUE,
                 pricing |-> WithSource(catalogResult, "SportsCardsPro (Fallback)")]
           ELSE [status |-> 200, success |-> FALSE,
                 pricing |-> [found |-> FALSE,
                              message |->
                                "Could not find pricing for this card from any source"]]
    /\ pc' = "done"
    /\ UNCHANGED << configVars, searchTerms, scraperVars, catalogVars, thrown >>

\* the handler's catch block: res.status(500).json(...)
HandlerCatch ==
    /\ pc = "handler.catch"
    /\ response' =
           IF serverVer = 1
           THEN [status |-> 500, success |-> FALSE, error |-> thrown,
                 pricing |-> [found |-> FALSE, message |-> "Error retrieving price"]]
           ELSE [status |-> 500, success |-> FALSE, error |-> thrown]
    /\ thrown' = ""
    /\ pc' = "done"
    /\ UNCHANGED << configVars, searchTerms, scraperVars, catalogVars >>

Next ==
    \/ HandlerStart
    \/ Launch
    \/ Navigate
    \/ Evaluate
    \/ CloseBrowser
    \/ Summarize
    \/ ScrapeCatch
    \/ ScrapeReturn
    \/ HandlerAfterScrape
    \/ CatalogSearch
    \/ CatalogDetail
    \/ HandlerAfterCatalog
    \/ HandlerCatch

Spec == Init /\ [][Next]_vars

---------------------------------------------------------------------------
(* Properties *)

LiveSucceeded == scraperResult # Undefined /\ scraperResult.success

HasPricing == response # Undefined /\ "pricing" \in DOMAIN response

CatalogSource == "SportsCardsPro (Fallback)"

\* C1: once the scraper has returned a successful price set, the catalog is
\* never called in that resolution, and the response the handler sends is
\* found:true with the live-listings source.
C1_LiveResultWins ==
    LiveSucceeded =>
        /\ catalogCalls = 0
        /\ pc \notin { "catalog.search", "catalog.detail", "handler.afterCatalog" }
        /\ pc = "done" =>
              /\ response.status = 200
              /\ response.pricing.found
              /\ response.pricing.source = LiveSource
              /\ response.pricing.price = scraperResult.averagePrice

\* C1 witness: a resolution that ended with a successful scraper result
C1_Witness ==
    /\ pc = "done"
    /\ LiveSucceeded
    /\ response.pricing.source = LiveSource

\* C2: when the resolution is over and the live-listings source did not
\* succeed (it threw, timed out, found no listing or had all filtered), the
\* catalog source was called and the handler answered without an error.
C2_FallbackOnLiveFailure ==
    (pc = "done" /\ ~LiveSucceeded) =>
        /\ catalogCalls >= 1
        /\ response.status = 200

\* C3: no exception leaves scrapeEbaySoldListings or searchSportsCardsPro, and
\* every resolution ends with a PriceResult, which is found:false with a
\* message when neither source gave a usable price.
C3_AlwaysAPriceResult ==
    /\ pc # "handler.catch"
    /\ pc = "done" =>
          /\ HasPricing
          /\ response.status = 200
          /\ ~response.pricing.found => "message" \in DOMAIN response.pricing

\* C4: a found:true result has sampleCount >= 1 and, when it has a price
\* range, a price inside it (both the live-listings and the catalog path).
C4_FoundResultInvariant ==
    (pc = "done" /\ HasPricing /\ response.pricing.found) =>
        /\ response.pricing.salesVolume >= 1
        /\ "priceRange" \in DOMAIN response.pricing =>
              /\ response.pricing.priceRange.low <= response.pricing.price
              /\ response.pricing.price <= response.pricing.priceRange.high

\* C5: a found:true result of the catalog source carries the positive price
\* of the best match; a missing, null or zero price never gives found:true.
C5_CatalogPricePositive ==
    (pc = "done" /\ HasPricing /\ response.pricing.found
        /\ response.pricing.source = CatalogSource) =>
        response.pricing.price > 0

\* C6: once at least one listing passed the Noise Filter, the Outlier Filter
\* keeps at least one price: the scraper returns a summary, never
\* 'No valid prices found after filtering'.
C6_OutlierFilterKeepsSome ==
    (pc = "scrape.return" /\ Len(soldListings) >= 1) =>
        /\ scraperResult.success
        /\ scraperResult.soldCount >= 1

\* C7: the summary satisfies low <= mean <= high, and low and high are the
\* minimum and the maximum of the kept prices.
C7_MeanWithinRange ==
    (pc = "scrape.return" /\ scraperResult.success) =>
        /\ scraperResult.priceRange.low <= scraperResult.averagePrice
        /\ scraperResult.averagePrice <= scraperResult.priceRange.high
        /\ scraperResult.priceRange.low = MathMin(scraperResult.allPrices)
        /\ scraperResult.priceRange.high = MathMax(scraperResult.allPrices)

RECURSIVE IntToString(_)
IntToString(n) ==
    IF n < 10 THEN CharAt(Digits, n + 1)
    ELSE IntToString(n \div 10) \o CharAt(Digits, (n % 10) + 1)

\* the text of a number, as a template literal or textContent renders it:
\* "NaN", or the shortest decimal ("12", "0.5", "5.001")
NumberToString(x) ==
    LET whole == x \div Scale
        frac  == x % Scale
        d3    == IntToString(frac \div 100) \o IntToString((frac \div 10) % 10)
                     \o IntToString(frac % 10)
        RECURSIVE StripZeros(_)
        StripZeros(t) ==
            IF t # "" /\ CharAt(t, Len(t)) = "0" THEN StripZeros(SubSeq(t, 1, Len(t) - 1))
            ELSE t
    IN  IF x = NaN THEN "NaN"
        ELSE IF frac = 0 THEN IntToString(whole)
        ELSE IntToString(whole) \o "." \o StripZeros(d3)

\* the page a list of listings renders as: each title as it is, each price as
\* the text of the number
RenderListings(listings) ==
    [i \in 1..Len(listings) |->
        [title |-> listings[i].title, priceText |-> NumberToString(listings[i].price)]]

\* C8: the Noise Filter applied to its own output returns the same listings
\* in the same order.
C8_NoiseFilterIdempotent ==
    pc = "scrape.close" =>
        ExtractListings(scraperVer, RenderListings(soldListings)) = soldListings

\* C9: no listing the Noise Filter returns has a title that contains a
\* grading term (case-insensitive, as a substring), whatever its price.
C9_NoGradedListing ==
    pc = "scrape.close" =>
        \A i \in 1..Len(soldListings) :
            \A term \in GradingTerms :
                ~Includes(ToLowerCase(soldListings[i].title), term)

\* an item the other rules accept: a plain title, and a price text that is
\* one dollar amount at or next to an end of the band
PlainItem(item) ==
    /\ item.title = "Connor Bedard Young Guns"
    /\ item.priceText \in { "$0.49", "$0.50", "$10,000.00", "$10,000.01" }

\* the amount a plain item's price text states
StatedPrice(item) ==
    ParseFloat(RemoveCommas(SubSeq(item.priceText, 2, Len(item.priceText))))

\* C10: the plausibility band is inclusive at both ends: an otherwise
\* acceptable item is among the listings kept exactly when
\* 0.50 <= price <= 10000, so 0.50 and 10000 are kept, 0.49 and 10000.01 are not.
C10_BandInclusive ==
    pc = "scrape.close" =>
        \A i \in 1..Len(items) :
            PlainItem(items[i]) =>
                ( (MinPrice <= StatedPrice(items[i]) /\ StatedPrice(items[i]) <= MaxPrice)
                    <=> (\E j \in 1..Len(soldListings) :
                           soldListings[j].price = StatedPrice(items[i])) )

---------------------------------------------------------------------------
(* Catalog Matcher and Ranker properties.  The candidates the catalog       *)
(* source yields are `products`: the search results after filtering and     *)
(* sorting, of which the first is the best match.                           *)

\* the request wants the base card: parallel is the "base" sentinel or absent
WantsBase(card) == card.parallel = "" \/ ToLowerCase(card.parallel) = "base"

\* lower-cased product name + set name of a candidate
CombinedText(candidate) ==
    ToLowerCase(candidate.productName) \o " " \o ToLowerCase(candidate.setName)

\* the terms the variant-keyword set is stated to hold
VariantKeywordSet ==
    { "refractor", "prizm", "chrome", "gold", "silver", "rainbow", "holo",
      "autograph", "patch", "numbered" }

\* C11: a base request (parallel "base" or absent) never yields a candidate
\* whose combined text contains a term of the variant-keyword set, and a
\* request for a parallel never yields a candidate whose combined text lacks
\* that parallel in lower case.
C11_VariantIntent ==
    \A i \in 1..Len(products) :
        /\ WantsBase(cardInfo) =>
               \A term \in VariantKeywordSet : ~Includes(CombinedText(products[i]), term)
        /\ ~WantsBase(cardInfo) =>
               Includes(CombinedText(products[i]), ToLowerCase(cardInfo.parallel))

\* set name matches 'hockey cards <4-digit-year>[-<2-digit-year>] upper deck'
IsFlagshipCandidate(candidate) == IsFlagship(ToLowerCase(candidate.setName))

IsYoungGunsCandidate(candidate) == Includes(CombinedText(candidate), "young guns")

\* C12: for a hockey base request, no candidate that is not of the flagship
\* set stands before one that is, and among candidates of the same flagship
\* status none without 'young guns' stands before one with it.
C12_RankerOrder ==
    (ToLowerCase(cardInfo.sport) = "hockey" /\ WantsBase(cardInfo)) =>
        \A i, j \in 1..Len(products) :
            i < j =>
                /\ ~(~IsFlagshipCandidate(products[i]) /\ IsFlagshipCandidate(products[j]))
                /\ IsFlagshipCandidate(products[i]) = IsFlagshipCandidate(products[j]) =>
                       ~(~IsYoungGunsCandidate(products[i])
                            /\ IsYoungGunsCandidate(products[j]))

\* the request names a card number: cardNumber is present and not the
\* 'Not visible' sentinel
HasCardNumber(card) == card.cardNumber # "" /\ card.cardNumber # "Not visible"

\* C14: when the request names a card number, every candidate the Catalog
\* Matcher yields has the token '#<cardNumber>' in its product name
\* (case-insensitive).
C14_CardNumberMatch ==
    HasCardNumber(cardInfo) =>
        \A i \in 1..Len(products) :
            Includes(ToLowerCase(products[i].productName),
                     "#" \o ToLowerCase(cardInfo.cardNumber))

\* C15: whatever the request, no candidate the Catalog Matcher yields has
\* 'oversized' in its combined text.
C15_NoOversized ==
    \A i \in 1..Len(products) : ~Includes(CombinedText(products[i]), "oversized")

---------------------------------------------------------------------------
(* Query Builder property *)

\* the query the request's fields give: year, brand, series, player, then
\* '#' + cardNumber when a card number is named, then the parallel when one
\* is wanted; a field that is empty or a sentinel gives no token
BuildQuery(card) ==
    Join(SelectSeq(<< card.year, card.brand, card.series, card.player,
                      IF HasCardNumber(card) THEN "#" \o card.cardNumber ELSE "",
                      IF WantsBase(card) THEN "" ELSE card.parallel >>,
                   IsTruthyTerm))

\* C13: every query that is built is year, brand, series, player, then
\* '#'+cardNumber only when the card number is present and not 'Not visible',
\* then the parallel only when it is present and not 'Base'; an empty or
\* sentinel field contributes no token.
C13_QueryOrder ==
    searchTerms # "" => searchTerms = BuildQuery(cardInfo)

---------------------------------------------------------------------------
(* Browser lifecycle property *)

\* scrapeEbaySoldListings has returned or thrown
ScraperLeft ==
    pc \in { "handler.afterScrape", "handler.catch", "catalog.search",
             "catalog.detail", "handler.afterCatalog", "done" }

\* C16: once scrapeEbaySoldListings has returned or thrown, the browser it
\* launched is closed: no exit path leaves it open.
C16_BrowserReleased ==
    ScraperLeft => ~browserOpen

=============================================================================
